---- MODULE Spec2Model ----
(***************************************************************************)
(* Model of src/get_alerts.py: the command-line run main() that pages      *)
(* through the alert source with retrieve_all_alerts / make_request and    *)
(* hands the accumulated records to save_alerts_to_file / upload_to_s3.    *)
(***************************************************************************)
EXTENDS Integers, Sequences, FiniteSets, TLC

VARIABLES
    pc,             \* position of the run inside main()
    argv,           \* sys.argv, fixed at process start
    key_type,       \* main: parsed KEYTYPE
    start_arg,      \* main: parsed START (line 261), never passed on
    count_per_page, \* retrieve_all_alerts parameter
    max_pages,      \* retrieve_all_alerts parameter
    all_alerts,     \* retrieve_all_alerts local: the accumulator
    start,          \* retrieve_all_alerts local: offset of the next window
    page,           \* retrieve_all_alerts local: 1-based page counter
    response,       \* outcome of the make_request call in progress
    calls,          \* every make_request call so far: request sent, outcome got
    stop_reason,    \* which break statement ended the while loop
    now,            \* wall clock, milliseconds since epoch
    files,          \* local files written by save_alerts_to_file
    s3_calls,       \* upload_file calls made by upload_to_s3
    sink_alerts,    \* the `alerts` argument save_alerts_to_file was called with
    sink_result,    \* return value of save_alerts_to_file
    exit_code,      \* process exit status, -1 while running
    payload_calls,  \* get_payload calls made on their own: arguments, result
    \* the same run started with the other START word, against the same source,
    \* followed in step with this one:
    twin_start,       \* its retrieve_all_alerts local `start`
    twin_windows,     \* the windows it has asked for
    twin_all_alerts   \* its accumulator

vars == <<pc, argv, key_type, start_arg, count_per_page, max_pages, all_alerts,
          start, page, response, calls, stop_reason, now, files, s3_calls,
          sink_alerts, sink_result, exit_code, payload_calls,
          twin_start, twin_windows, twin_all_alerts>>

twin == <<twin_start, twin_windows, twin_all_alerts>>

(***************************************************************************)
(* Bounds of the model.                                                    *)
(***************************************************************************)
\* most make_request calls one run is followed through
MaxFetches == 3
\* largest MAX_PAGES given on the command line
MaxMaxPages == 2
\* most get_payload calls followed when the function is exercised on its own
MaxPayloadCalls == 2

(***************************************************************************)
(* Program constants.                                                      *)
(***************************************************************************)
\* len(sys.argv) below which main prints the usage and exits 1
MinArgc == 9
\* int(seconds) * 1000 in get_headers
MsPerSec == 1000

(***************************************************************************)
(* Inputs.                                                                 *)
(***************************************************************************)
\* non-empty pages the alert source can answer with; the records "a" and "b"
\* stand for two distinguishable opaque JSON objects
Pages == {<<"a">>, <<"b", "a">>}
\* values secrets.choice can produce for the 64-character nonce
Nonces == {"n1", "n2"}
\* time one request takes, and the clock at process start
Delays == {400, 1000}
ClockStart == {5400}
\* a command-line word is either a decimal numeral or not a number
Numeral(n) == [numeral |-> n]
NotANumber == [word |-> "abc"]
IsNumeral(w) == DOMAIN w = {"numeral"}

\* START words, and the other one of the two
Starts == {0, 5}
OtherStart(s) == CHOOSE t \in Starts : t # s
\* FQDN words: a host name, and a URL given where the host name belongs; the
\* port is the text after the last ':' of the word, when there is one
GoodHost == [name |-> "api.xdr.example", port |-> [given |-> FALSE]]
UrlAsHost == [name |-> "https", port |-> [given |-> TRUE, value |-> NotANumber]]

ArgvSet ==
    { [argc |-> c, KEYID |-> Numeral(7), KEY |-> "my-key", KEYTYPE |-> kt,
       FQDN |-> h,
       START |-> Numeral(s), COUNT |-> Numeral(n), MAX_PAGES |-> mp] :
         c \in {MinArgc - 1, MinArgc},
         kt \in {"standard", "advanced"},
         h \in {GoodHost, UrlAsHost},
         s \in Starts,
         n \in {1, 2},
         mp \in {Numeral(m) : m \in 0..MaxMaxPages} \cup {NotANumber} }

(***************************************************************************)
(* Python values.                                                          *)
(***************************************************************************)
\* an optional argument: None, or a value
None == [given |-> FALSE]
Some(v) == [given |-> TRUE, value |-> v]
\* str(n): the decimal text of an integer
str(n) == [text_of |-> n]
\* int(w) on a command-line word: the number, or ValueError
int_raises(w) == ~IsNumeral(w)
int(w) == w.numeral
\* sha256(s.encode('utf-8')).hexdigest(), s given as the parts concatenated
sha256_hexdigest(parts) == [sha256_of |-> parts]
\* json.dump(alerts, f): a JSON array holding the records in list order
json_dump(alerts) == [json_array |-> alerts]

(***************************************************************************)
(* get_headers (lines 61-79).  nonce and t are the values the call reads   *)
(* from secrets.choice and from datetime.now.                              *)
(***************************************************************************)
\* int(datetime.now(timezone.utc).timestamp()) * 1000, t in milliseconds
Timestamp(t) == (t \div MsPerSec) * MsPerSec

get_headers(key_id, key, kt, nonce, t) ==
    IF kt = "advanced"
    THEN [x_xdr_timestamp |-> str(Timestamp(t)),
          x_xdr_nonce     |-> nonce,
          x_xdr_auth_id   |-> str(key_id),
          Authorization   |-> sha256_hexdigest(<<key, nonce, str(Timestamp(t))>>)]
    ELSE [Authorization   |-> key,
          x_xdr_auth_id   |-> str(key_id)]

(***************************************************************************)
(* get_payload (lines 81-113).                                             *)
(***************************************************************************)
default_filters ==
    << [field |-> "severity", operator |-> "in",
        value |-> <<"low", "medium", "high">>] >>

\* the extra filters of the calls before this one, in call order
RECURSIVE EarlierExtras(_)
EarlierExtras(n) ==
    IF n = 0 THEN << >>
    ELSE EarlierExtras(n - 1) \o
         (IF payload_calls[n].additional_filters.given
          THEN payload_calls[n].additional_filters.value ELSE << >>)

\* the default list kept across calls and extended in place
get_payload_SharedDefault(from, to, additional_filters) ==
    [request_data |->
        [filters     |-> default_filters \o EarlierExtras(Len(payload_calls)) \o
                         (IF additional_filters.given
                          THEN additional_filters.value ELSE << >>),
         search_from |-> from,
         search_to   |-> to,
         sort        |-> [field |-> "creation_time", keyword |-> "desc"]]]

get_payload(from, to, additional_filters) ==
    [request_data |->
        [filters     |-> default_filters \o
                         (IF additional_filters.given
                          THEN additional_filters.value ELSE << >>),
         search_from |-> from,
         search_to   |-> to,
         sort        |-> [field |-> "creation_time", keyword |-> "desc"]]]

(***************************************************************************)
(* What one make_request call can end with (lines 125-156): an exception   *)
(* re-raised to the caller, or the parsed JSON body.                       *)
(***************************************************************************)
Raised(e) == [tag |-> "raised", err |-> e]
Returned(b) == [tag |-> "returned", body |-> b]
NoResponse == [tag |-> "none"]

\* ssl.SSLError, status != 200, socket timeout / OSError, json.loads error
FetchErrors == {"ssl", "status", "transport", "parse"}

\* a JSON object: `reply` present or not, `alerts` present in it or not
JsonObject(has_reply, has_alerts, alerts) ==
    [is_object |-> TRUE, has_reply |-> has_reply, has_alerts |-> has_alerts,
     alerts |-> alerts]
\* valid JSON that is no object (a list, a number)
JsonNotObject ==
    [is_object |-> FALSE, has_reply |-> FALSE, has_alerts |-> FALSE,
     alerts |-> << >>]

JsonBodies ==
    {JsonNotObject, JsonObject(FALSE, FALSE, << >>), JsonObject(TRUE, FALSE, << >>),
     JsonObject(TRUE, TRUE, << >>)}
    \cup {JsonObject(TRUE, TRUE, p) : p \in Pages}

Outcomes == {Raised(e) : e \in FetchErrors} \cup {Returned(b) : b \in JsonBodies}

\* line 130: HTTPSConnection(fqdn, ...) raises InvalidURL for a port that is
\* no number, before `conn` is bound
HTTPSConnection_raises(fqdn) == fqdn.port.given /\ ~IsNumeral(fqdn.port.value)
\* what the caller then gets: the UnboundLocalError of `conn.close()` at
\* line 156, raised while InvalidURL was propagating
UnboundConn == Raised("unbound_local")

\* lines 130-144: the calls on the connection the try block makes before it
\* returns or raises.  The TLS error comes out of request (the handshake),
\* the timeout and the status error after getresponse, the parse error
\* after read
TryBody(out) ==
    IF out = UnboundConn THEN << >>
    ELSE IF out = Raised("ssl") THEN <<"HTTPSConnection", "request">>
    ELSE IF out \in {Raised("transport"), Raised("status")}
         THEN <<"HTTPSConnection", "request", "getresponse">>
    ELSE <<"HTTPSConnection", "request", "getresponse", "read">>
\* lines 155-156: `finally: conn.close()`, which closes the connection on
\* every path that bound `conn`
WithFinally_SuccessOnly(ops, raised) ==
    IF raised THEN ops ELSE Append(ops, "close")
WithFinally(ops, raised) ==
    IF ops = << >> THEN ops ELSE Append(ops, "close")

(***************************************************************************)
(* Pieces of the loop body of retrieve_all_alerts (lines 175-207).         *)
(***************************************************************************)
\* line 184: response.get('reply', {}).get('alerts', []); .get on a
\* non-object raises AttributeError inside the try block
get_alerts_raises_MissingReply(body) == ~body.is_object \/ ~body.has_reply
get_alerts_raises(body) == ~body.is_object
get_alerts(body) ==
    IF body.has_reply /\ body.has_alerts THEN body.alerts ELSE << >>

\* line 187: `if not alerts`
NoMoreAlerts_Never(alerts) == FALSE
NoMoreAlerts(alerts) == alerts = << >>
\* line 191: all_alerts.extend(alerts)
Extend_Prepend(acc, alerts) == alerts \o acc
Extend_Replace(acc, alerts) == alerts
Extend(acc, alerts) == acc \o alerts
\* line 197: `if max_pages and page >= max_pages`
PageLimitReached_Early(mp, pg) == mp # 0 /\ pg + 1 >= mp
PageLimitReached_Late(mp, pg) == mp # 0 /\ pg > mp
PageLimitReached_NoTruthTest(mp, pg) == pg >= mp
PageLimitReached(mp, pg) == mp # 0 /\ pg >= mp
\* line 205: `except Exception` catches every error a fetch can end with,
\* the AttributeError of line 184 included
Caught_NotTransport(err) == err # "transport"
Caught(err) == err \in FetchErrors \cup {"attribute", "unbound_local"}
\* line 172: `start = 0`; the START word main parsed (line 261) is not among
\* the arguments of the call at lines 266-269
InitialStart_FromArg(s) == s
InitialStart(s) == 0
\* line 178 and line 202
WindowEnd(from, n) == from + n
NextStart_Skip(from, n) == from + n + 1
NextStart(from, n) == from + n

(***************************************************************************)
(* Result sink values (lines 211-240) and upload_to_s3 (lines 33-59).      *)
(***************************************************************************)
NotCalled == [called |-> FALSE]
SinkReturned(v) == [called |-> TRUE, value |-> v]
\* line 225-227: f'cortex-alerts-{datetime.now().isoformat()}.json'
Filename(t) == [prefix |-> "cortex-alerts-", isoformat |-> t, suffix |-> ".json"]
\* line 46: f'cortex-alerts/{os.path.basename(file_path)}'
S3Key(file_path) == [prefix |-> "cortex-alerts/", basename |-> file_path]
\* line 219: `if not alerts`
NothingToSave_Never(alerts) == FALSE
NothingToSave(alerts) == alerts = << >>
\* what the sink returns once the file is written, whatever upload_to_s3
\* returned (line 235 drops it, line 237)
ReturnAfterUpload(filename, uploaded) == Some(filename)
\* the status main ends with after save_alerts_to_file returned (line 272:
\* the return value is dropped and main falls off its end)
ExitAfterSave_ByResult(saved) == IF saved.value.given THEN 0 ELSE 1
ExitAfterSave(saved) == 0
\* outcomes of the two storage steps
FileOutcomes == {"written", "open_failed"}
S3Outcomes == {"uploaded", "upload_failed"}
\* upload_to_s3, lines 41-59: the upload_file calls it makes for a file
\* holding `body`; a failure is printed and ends the function
upload_to_s3_Retry(file_path, bucket_name, body, u) ==
    LET call == [bucket |-> bucket_name, key |-> S3Key(file_path),
                 body |-> body, ok |-> (u = "uploaded")]
    IN  IF u = "uploaded" THEN <<call>> ELSE <<call, call>>
upload_to_s3(file_path, bucket_name, body, u) ==
    << [bucket |-> bucket_name, key |-> S3Key(file_path),
        body |-> body, ok |-> (u = "uploaded")] >>

(***************************************************************************)
(* The run.                                                                *)
(***************************************************************************)
Init ==
    /\ pc = "main"
    /\ argv \in ArgvSet
    /\ key_type = "unset"
    /\ start_arg = 0
    /\ count_per_page = 0
    /\ max_pages = 0
    /\ all_alerts = << >>
    /\ start = 0
    /\ page = 1
    /\ response = NoResponse
    /\ calls = << >>
    /\ stop_reason = "none"
    /\ now \in ClockStart
    /\ files = << >>
    /\ s3_calls = << >>
    /\ sink_alerts = None
    /\ sink_result = NotCalled
    /\ exit_code = -1
    /\ payload_calls = << >>
    /\ twin_start = 0
    /\ twin_windows = << >>
    /\ twin_all_alerts = << >>

\* line 247: `if len(sys.argv) < 9`
TooFewArgs_OffByOne(argc) == argc <= MinArgc
TooFewArgs(argc) == argc < MinArgc

\* main, lines 247-252: the argument-count check
main_check_args ==
    /\ pc = "main"
    /\ IF TooFewArgs(argv.argc)
       THEN pc' = "exited" /\ exit_code' = 1
       ELSE pc' = "parse" /\ exit_code' = exit_code
    /\ UNCHANGED <<payload_calls, argv, key_type, start_arg, count_per_page, max_pages,
                   all_alerts, start, page, response, calls, stop_reason, now,
                   files, s3_calls, sink_alerts, sink_result>>
    /\ UNCHANGED twin

\* main, lines 254-269 and 274-276: parse the words, enter
\* retrieve_all_alerts (lines 171-173); a ValueError exits 1
main_parse_args ==
    /\ pc = "parse"
    /\ IF \/ int_raises(argv.KEYID) \/ int_raises(argv.START)
          \/ int_raises(argv.COUNT) \/ int_raises(argv.MAX_PAGES)
       THEN /\ pc' = "exited"
            /\ exit_code' = 1
            /\ UNCHANGED <<key_type, start_arg, count_per_page, max_pages>>
       ELSE /\ key_type' = argv.KEYTYPE
            /\ start_arg' = int(argv.START)
            /\ count_per_page' = int(argv.COUNT)
            /\ max_pages' = int(argv.MAX_PAGES)
            /\ pc' = "fetching"
            /\ exit_code' = exit_code
    /\ all_alerts' = << >>
    /\ start' = InitialStart(start_arg')
    /\ page' = 1
    /\ twin_all_alerts' = << >>
    /\ twin_start' = InitialStart(OtherStart(start_arg'))
    /\ twin_windows' = twin_windows
    /\ UNCHANGED <<payload_calls, argv, response, calls, stop_reason, now, files, s3_calls,
                   sink_alerts, sink_result>>

\* lines 178-181 and make_request, lines 115-156: one request for the window
\* [start, start + count_per_page), signed afresh, and its outcome
make_request ==
    /\ pc = "fetching"
    /\ Len(calls) < MaxFetches
    /\ \E nonce \in Nonces, d \in Delays,
          out \in (IF HTTPSConnection_raises(argv.FQDN)
                   THEN {UnboundConn} ELSE Outcomes) :
          LET end == WindowEnd(start, count_per_page)
              payload == get_payload(start, end, None)
              headers == get_headers(int(argv.KEYID), argv.KEY, key_type, nonce, now)
          IN  /\ calls' = Append(calls, [payload |-> payload, headers |-> headers,
                                         outcome |-> out,
                                         ops |-> WithFinally(TryBody(out),
                                                     out.tag = "raised")])
              /\ response' = out
              /\ now' = now + d
    /\ twin_windows' = Append(twin_windows,
                           [from |-> twin_start,
                            to   |-> WindowEnd(twin_start, count_per_page)])
    /\ UNCHANGED <<twin_start, twin_all_alerts>>
    /\ pc' = "responded"
    /\ UNCHANGED <<payload_calls, argv, key_type, start_arg, count_per_page, max_pages,
                   all_alerts, start, page, stop_reason, files, s3_calls,
                   sink_alerts, sink_result, exit_code>>

\* retrieve_all_alerts, lines 183-207: the rest of one loop iteration.  An
\* exception the handler at line 205 does not catch leaves the function and
\* reaches main's handler (lines 274-276)
retrieve_all_alerts ==
    /\ pc = "responded"
    /\ LET raised == response.tag = "raised" \/ get_alerts_raises(response.body)
           err == IF response.tag = "raised" THEN response.err ELSE "attribute"
       IN  IF raised
           THEN /\ IF Caught(err)
                   THEN /\ stop_reason' = "error"
                        /\ pc' = "stopped"
                        /\ exit_code' = exit_code
                   ELSE /\ stop_reason' = stop_reason
                        /\ pc' = "exited"
                        /\ exit_code' = 1
                /\ UNCHANGED <<all_alerts, start, page, twin_start, twin_all_alerts>>
           ELSE /\ exit_code' = exit_code
                /\ LET alerts == get_alerts(response.body)
                   IN  IF NoMoreAlerts(alerts)
                       THEN /\ stop_reason' = "empty"
                            /\ pc' = "stopped"
                            /\ UNCHANGED <<all_alerts, start, page, twin_start,
                                           twin_all_alerts>>
                       ELSE /\ all_alerts' = Extend(all_alerts, alerts)
                            /\ twin_all_alerts' = Extend(twin_all_alerts, alerts)
                            /\ IF PageLimitReached(max_pages, page)
                               THEN /\ stop_reason' = "max_pages"
                                    /\ pc' = "stopped"
                                    /\ UNCHANGED <<start, page, twin_start>>
                               ELSE /\ start' = NextStart(start, count_per_page)
                                    /\ twin_start' = NextStart(twin_start, count_per_page)
                                    /\ page' = page + 1
                                    /\ pc' = "fetching"
                                    /\ stop_reason' = stop_reason
    /\ UNCHANGED <<payload_calls, argv, key_type, start_arg, count_per_page, max_pages,
                   response, calls, now, files, s3_calls, sink_alerts,
                   sink_result, twin_windows>>

\* main, line 272, and save_alerts_to_file, lines 211-240, with the
\* upload_to_s3 call it makes (lines 33-59); then main returns
save_alerts_to_file ==
    /\ pc = "stopped"
    /\ sink_alerts' = Some(all_alerts)
    /\ IF NothingToSave(all_alerts)
       THEN /\ sink_result' = SinkReturned(None)
            /\ UNCHANGED <<files, s3_calls>>
       ELSE \E f \in FileOutcomes, u \in S3Outcomes :
              LET filename == Filename(now)
              IN  IF f = "open_failed"
                  THEN /\ sink_result' = SinkReturned(None)
                       /\ UNCHANGED <<files, s3_calls>>
                  ELSE /\ files' = Append(files, [name |-> filename,
                                                  content |-> json_dump(all_alerts)])
                       /\ s3_calls' = s3_calls \o
                              upload_to_s3(filename, "db-pan-bucket",
                                           json_dump(all_alerts), u)
                       /\ sink_result' =
                              SinkReturned(ReturnAfterUpload(filename, u = "uploaded"))
    /\ pc' = "exited"
    /\ exit_code' = ExitAfterSave(sink_result')
    /\ UNCHANGED <<payload_calls, argv, key_type, start_arg, count_per_page, max_pages,
                   all_alerts, start, page, response, calls, stop_reason, now>>
    /\ UNCHANGED twin

Next ==
    \/ main_check_args
    \/ main_parse_args
    \/ make_request
    \/ retrieve_all_alerts
    \/ save_alerts_to_file

Spec == Init /\ [][Next]_vars

\* the blocking calls are bounded (timeout=30 at line 133), so a run that can
\* take a step takes it
FairSpec == Spec /\ WF_vars(Next)

(***************************************************************************)
(* get_payload on its own (lines 81-113): any window, any list of extra    *)
(* filters or none, several calls in a row.                                *)
(***************************************************************************)
\* offsets a caller can pass as start and end; get_payload validates neither
Offsets == {0, 1, 2}
SourceFilter ==
    [field |-> "source", operator |-> "in", value |-> <<"XDR Agent">>]
CriticalFilter ==
    [field |-> "severity", operator |-> "in", value |-> <<"critical">>]
\* the additional_filters argument: left out (None), or a list
ExtraFilterLists ==
    {None, Some(<< >>), Some(<<SourceFilter>>),
     Some(<<SourceFilter, CriticalFilter>>), Some(<<CriticalFilter, SourceFilter>>)}

PayloadInit ==
    /\ pc = "get_payload"
    /\ argv \in {a \in ArgvSet : a.argc = MinArgc /\ a.KEYTYPE = "standard"
                                 /\ a.FQDN = GoodHost
                                 /\ a.MAX_PAGES = Numeral(0)}
    /\ key_type = "unset"
    /\ start_arg = 0
    /\ count_per_page = 0
    /\ max_pages = 0
    /\ all_alerts = << >>
    /\ start = 0
    /\ page = 1
    /\ response = NoResponse
    /\ calls = << >>
    /\ stop_reason = "none"
    /\ now \in ClockStart
    /\ files = << >>
    /\ s3_calls = << >>
    /\ sink_alerts = None
    /\ sink_result = NotCalled
    /\ exit_code = -1
    /\ payload_calls = << >>
    /\ twin_start = 0
    /\ twin_windows = << >>
    /\ twin_all_alerts = << >>

get_payload_call ==
    /\ pc = "get_payload"
    /\ Len(payload_calls) < MaxPayloadCalls
    /\ \E from \in Offsets, to \in Offsets, af \in ExtraFilterLists :
          payload_calls' = Append(payload_calls,
              [start |-> from, end |-> to, additional_filters |-> af,
               result |-> get_payload(from, to, af)])
    /\ UNCHANGED <<pc, argv, key_type, start_arg, count_per_page, max_pages,
                   all_alerts, start, page, response, calls, stop_reason, now,
                   files, s3_calls, sink_alerts, sink_result, exit_code>>
    /\ UNCHANGED twin

PayloadNext == get_payload_call

PayloadSpec == PayloadInit /\ [][PayloadNext]_vars

(***************************************************************************)
(* Vocabulary of the properties: what the source answered, read off the    *)
(* log of calls.                                                           *)
(***************************************************************************)
\* the i-th call was answered with a non-empty `reply.alerts` array
IsPage(i) ==
    /\ calls[i].outcome.tag = "returned"
    /\ calls[i].outcome.body.is_object
    /\ calls[i].outcome.body.has_reply
    /\ calls[i].outcome.body.has_alerts
    /\ calls[i].outcome.body.alerts # << >>
\* the i-th call was answered with `reply.alerts` present and empty
IsEmptyPage(i) ==
    /\ calls[i].outcome.tag = "returned"
    /\ calls[i].outcome.body.is_object
    /\ calls[i].outcome.body.has_reply
    /\ calls[i].outcome.body.has_alerts
    /\ calls[i].outcome.body.alerts = << >>
\* the i-th call failed: transport, TLS, status or parse error
IsFailure(i) == calls[i].outcome.tag = "raised"
\* the records of the pages answered to calls 1..n, in arrival order
RECURSIVE PagesUpTo(_)
PagesUpTo(n) ==
    IF n = 0 THEN << >>
    ELSE PagesUpTo(n - 1) \o calls[n].outcome.body.alerts
Stopped == pc \in {"stopped", "exited"}

(***************************************************************************)
(* C1: with max_pages = N > 0 and a source that answers every request with *)
(* a non-empty page, the run makes exactly N fetches, then stops, and      *)
(* returns the concatenation of the N pages.                               *)
(***************************************************************************)
C1_ExactlyMaxPagesFetches ==
    (max_pages > 0 /\ \A i \in 1..Len(calls) : IsPage(i)) =>
        /\ Len(calls) <= max_pages
        /\ (pc = "fetching" => Len(calls) < max_pages)
        /\ (Stopped => /\ Len(calls) = max_pages
                       /\ stop_reason = "max_pages"
                       /\ all_alerts = PagesUpTo(max_pages))
C1_Witness ==
    /\ pc = "stopped"
    /\ max_pages = MaxMaxPages
    /\ Len(calls) = MaxMaxPages
    /\ \A i \in 1..Len(calls) : IsPage(i)

(***************************************************************************)
(* C2: when the source answers k non-empty pages and then an empty page,   *)
(* the run returns the concatenation of the k pages in arrival order,      *)
(* makes exactly k+1 fetches and makes no fetch after the empty page.      *)
(***************************************************************************)
C2_StopsAtEmptyPage ==
    \A n \in 1..Len(calls) :
        (IsEmptyPage(n) /\ \A i \in 1..(n - 1) : IsPage(i)) =>
            /\ Len(calls) = n
            /\ pc # "fetching"
            /\ (Stopped => /\ stop_reason = "empty"
                           /\ all_alerts = PagesUpTo(n - 1))
C2_Witness ==
    /\ pc = "stopped"
    /\ Len(calls) = 3
    /\ IsPage(1) /\ IsPage(2) /\ IsEmptyPage(3)
    /\ calls[1].outcome # calls[2].outcome

(***************************************************************************)
(* C3: when the fetch of page j fails after pages 1..j-1 succeeded, the    *)
(* run stops without the exception leaving retrieve_all_alerts, makes no   *)
(* further fetch, returns exactly the records of pages 1..j-1, and hands   *)
(* that partial result to the result sink.                                 *)
(***************************************************************************)
C3_FailFastKeepsPartial ==
    \A j \in 1..Len(calls) :
        (IsFailure(j) /\ \A i \in 1..(j - 1) : IsPage(i)) =>
            /\ Len(calls) = j
            /\ pc # "fetching"
            /\ (Stopped => /\ stop_reason = "error"
                           /\ all_alerts = PagesUpTo(j - 1))
            /\ (pc = "exited" => /\ exit_code # 1
                                 /\ sink_result.called
                                 /\ sink_alerts = Some(PagesUpTo(j - 1)))
C3_Witness ==
    /\ pc = "exited"
    /\ Len(calls) = 2
    /\ IsPage(1) /\ IsFailure(2)
    /\ sink_alerts = Some(calls[1].outcome.body.alerts)
    /\ Len(files) = 1

(***************************************************************************)
(* C4: called with an empty result, save_alerts_to_file writes nothing, no *)
(* local file and no S3 object, and returns None.                          *)
(***************************************************************************)
C4_EmptyResultNotWritten ==
    (sink_result.called /\ sink_alerts = Some(<< >>)) =>
        /\ files = << >>
        /\ s3_calls = << >>
        /\ sink_result.value = None
C4_Witness ==
    /\ sink_result.called
    /\ sink_alerts = Some(<< >>)
    /\ stop_reason = "empty"

(***************************************************************************)
(* C5: in a run whose source answers non-empty pages p1..pk and then an    *)
(* empty page, the accumulator is p1 \o ... \o pk in arrival order,        *)
(* whatever the pages' lengths, and the sink, when its storage steps go    *)
(* through, makes exactly one storage write, holding exactly those         *)
(* records as a JSON array; it never makes more than one.                  *)
(***************************************************************************)
PagesThenEmpty ==
    /\ Len(calls) >= 2
    /\ IsEmptyPage(Len(calls))
    /\ \A i \in 1..(Len(calls) - 1) : IsPage(i)

C5_EndToEnd ==
    (pc = "exited" /\ PagesThenEmpty) =>
        LET k == Len(calls) - 1
            content == json_dump(PagesUpTo(k))
        IN  /\ all_alerts = PagesUpTo(k)
            /\ sink_alerts = Some(PagesUpTo(k))
            /\ Len(files) <= 1
            /\ Len(s3_calls) = Len(files)
            /\ \A i \in 1..Len(files) : files[i].content = content
            /\ \A i \in 1..Len(s3_calls) : s3_calls[i].body = content
            /\ (sink_result.value.given => Len(s3_calls) = 1)
C5_Witness ==
    /\ pc = "exited"
    /\ Len(calls) = 3
    /\ PagesThenEmpty
    /\ Len(calls[1].outcome.body.alerts) < count_per_page
    /\ all_alerts = <<"a", "b", "a">>
    /\ Len(s3_calls) = 1
    /\ s3_calls[1].ok
    /\ s3_calls[1].body = json_dump(<<"a", "b", "a">>)

(***************************************************************************)
(* C6: when the storage write fails after retrieval produced a non-empty   *)
(* result, the sink returns no filename and the run does not end with a    *)
(* success status.                                                         *)
(***************************************************************************)
StorageWriteFailed ==
    /\ sink_result.called
    /\ sink_alerts # Some(<< >>)
    /\ \/ files = << >>
       \/ \E i \in 1..Len(s3_calls) : ~s3_calls[i].ok

C6_StorageFailureSurfaced ==
    (pc = "exited" /\ StorageWriteFailed) =>
        /\ ~sink_result.value.given
        /\ exit_code # 0

(***************************************************************************)
(* C7: a run whose very first page fetch fails ends with zero records and  *)
(* a non-success status.                                                   *)
(***************************************************************************)
FirstFetchFailed == Len(calls) = 1 /\ IsFailure(1)

C7_FirstFetchFailureNotSuccess ==
    (pc = "exited" /\ FirstFetchFailed) =>
        /\ all_alerts = << >>
        /\ exit_code # 0

\* C7 as amended: a run whose very first page fetch fails ends with zero
\* records, writes nothing, gets None from the sink, and exits with code 0.
C7_FirstFetchFailureExitsZero ==
    (pc = "exited" /\ FirstFetchFailed) =>
        /\ all_alerts = << >>
        /\ stop_reason = "error"
        /\ sink_result = SinkReturned(None)
        /\ files = << >>
        /\ s3_calls = << >>
        /\ exit_code = 0
C7_Witness ==
    /\ pc = "exited"
    /\ FirstFetchFailed
    /\ calls[1].outcome = Raised("transport")
    /\ sink_result.called

(***************************************************************************)
(* C8: the run exits 0 whenever retrieval completes, a stop on a page      *)
(* error with a partial result included; it exits 1 only when fewer than   *)
(* 8 positional arguments were given or an exception reached main's        *)
(* handler, which argument parsing alone can raise.                        *)
(***************************************************************************)
ParseFails ==
    \/ int_raises(argv.KEYID) \/ int_raises(argv.START)
    \/ int_raises(argv.COUNT) \/ int_raises(argv.MAX_PAGES)

C8_ExitCodes ==
    pc = "exited" =>
        /\ exit_code \in {0, 1}
        /\ (exit_code = 1 <=> (argv.argc < MinArgc \/ ParseFails))
        /\ (stop_reason # "none" => exit_code = 0)
        /\ (exit_code = 0 => sink_result.called)
C8_Witness ==
    /\ pc = "exited"
    /\ exit_code = 0
    /\ stop_reason = "error"
    /\ all_alerts # << >>

(***************************************************************************)
(* C9: with max_pages = N > 0 every run of the loop stops after at most N  *)
(* fetches, whatever the source answers; with max_pages unset (0) the run  *)
(* stops once the source answers an empty page or an error.                *)
(***************************************************************************)
\* the answer to the latest call is an error or holds no alerts
LastAnswerEndsData ==
    /\ calls # << >>
    /\ LET out == calls[Len(calls)].outcome
       IN  \/ out.tag = "raised"
           \/ ~out.body.is_object
           \/ get_alerts(out.body) = << >>

C9_Terminates ==
    /\ [](max_pages > 0 => Len(calls) <= max_pages)
    /\ (\/ pc = "fetching" /\ max_pages > 0
        \/ pc = "responded" /\ max_pages = 0 /\ LastAnswerEndsData) ~> Stopped
C9_Witness ==
    /\ pc = "stopped"
    /\ max_pages = MaxMaxPages
    /\ Len(calls) = MaxMaxPages
    /\ stop_reason = "error"

(***************************************************************************)
(* C10: with an advanced key the headers are computed afresh for every     *)
(* fetch and no two requests of a run carry the same x-xdr-timestamp, the  *)
(* timestamp being the clock in milliseconds when the request is signed.   *)
(* (The nonce is a random draw: that two draws differ is a statement of    *)
(* probability and is not part of the formula.)                            *)
(***************************************************************************)
C10_TimestampNeverReused ==
    key_type = "advanced" =>
        \A i, j \in 1..Len(calls) :
            i # j => calls[i].headers.x_xdr_timestamp # calls[j].headers.x_xdr_timestamp

(***************************************************************************)
(* C11: whatever start, end and extra filters get_payload is called with,  *)
(* the filters of its result are the default severity filter (severity in  *)
(* low, medium, high) first and then the extra filters in the order given; *)
(* earlier calls leave no trace in the result of a later one.              *)
(***************************************************************************)
C11_DefaultFilterFirst ==
    \A i \in 1..Len(payload_calls) :
        LET c == payload_calls[i]
            fs == c.result.request_data.filters
            extras == IF c.additional_filters.given
                      THEN c.additional_filters.value ELSE << >>
        IN  /\ Len(fs) = 1 + Len(extras)
            /\ fs[1] = [field |-> "severity", operator |-> "in",
                        value |-> <<"low", "medium", "high">>]
            /\ \A j \in 1..Len(extras) : fs[j + 1] = extras[j]
            /\ c.result.request_data.search_from = c.start
            /\ c.result.request_data.search_to = c.end
C11_Witness ==
    /\ Len(payload_calls) = 2
    /\ payload_calls[1].additional_filters = Some(<<CriticalFilter, SourceFilter>>)
    /\ payload_calls[2].additional_filters = None
    /\ Len(payload_calls[2].result.request_data.filters) = 1

(***************************************************************************)
(* C12: the k-th fetch of a run asks for the window search_from =          *)
(* (k-1)*pageSize, search_to = k*pageSize: the first window starts at 0,   *)
(* every window is pageSize wide, consecutive windows touch, and no offset *)
(* is skipped or asked for twice.                                          *)
(***************************************************************************)
WindowOf(k) ==
    [from |-> calls[k].payload.request_data.search_from,
     to   |-> calls[k].payload.request_data.search_to]

C12_WindowArithmetic ==
    /\ \A k \in 1..Len(calls) :
          /\ WindowOf(k).from = (k - 1) * count_per_page
          /\ WindowOf(k).to = k * count_per_page
    /\ \A k \in 2..Len(calls) : WindowOf(k).from = WindowOf(k - 1).to
    /\ \A j, k \in 1..Len(calls) : j # k => WindowOf(j) # WindowOf(k)
C12_Witness ==
    /\ Len(calls) = 3
    /\ count_per_page = 2
    /\ WindowOf(3) = [from |-> 4, to |-> 6]

(***************************************************************************)
(* C13: every step of a run leaves the accumulator a prefix of what it is  *)
(* after the step, so its length never decreases and folded records are    *)
(* never changed, reordered or removed; the steps that stop on an error or *)
(* on an empty page leave it as it was.                                    *)
(***************************************************************************)
IsPrefix(a, b) == Len(a) <= Len(b) /\ SubSeq(b, 1, Len(a)) = a

C13_AccumulatorOnlyGrows ==
    [][ /\ IsPrefix(all_alerts, all_alerts')
        /\ (pc = "responded" /\ stop_reason' \in {"error", "empty"}
               => all_alerts' = all_alerts) ]_vars
C13_Witness ==
    /\ pc = "stopped"
    /\ stop_reason = "error"
    /\ Len(calls) = 3
    /\ all_alerts = <<"b", "a", "a">>

(***************************************************************************)
(* C15: with max_pages 0 there is no page-count ceiling: against a source  *)
(* that answers every request with a non-empty page the loop is never      *)
(* stopped, however many pages were fetched.                               *)
(***************************************************************************)
C15_ZeroMeansUnbounded ==
    /\ (max_pages = 0 => stop_reason # "max_pages")
    /\ (max_pages = 0 /\ Len(calls) >= 1 /\ \A i \in 1..Len(calls) : IsPage(i))
          => (pc \in {"fetching", "responded"} /\ stop_reason = "none")
C15_Witness ==
    /\ max_pages = 0
    /\ pc = "fetching"
    /\ Len(calls) = MaxFetches
    /\ page = MaxFetches + 1
    /\ \A i \in 1..Len(calls) : IsPage(i)

(***************************************************************************)
(* C16: an answer with status 200 whose JSON object has no `reply`, or a   *)
(* `reply` without `alerts`, is taken as an empty page and not as an       *)
(* error: the loop stops by the empty-page break, the accumulator is left  *)
(* as it was and no error is reported.                                     *)
(***************************************************************************)
AnswerLacksAlertsPath ==
    /\ pc = "responded"
    /\ response.tag = "returned"
    /\ response.body.is_object
    /\ (~response.body.has_reply \/ ~response.body.has_alerts)

C16_MissingPathIsEmptyPage ==
    [][ AnswerLacksAlertsPath =>
          /\ pc' = "stopped"
          /\ stop_reason' = "empty"
          /\ all_alerts' = all_alerts
          /\ exit_code' = exit_code ]_vars
C16_Witness ==
    /\ pc = "stopped"
    /\ stop_reason = "empty"
    /\ Len(calls) = 2
    /\ calls[2].outcome = Returned(JsonObject(FALSE, FALSE, << >>))
    /\ all_alerts = <<"b", "a">>

(***************************************************************************)
(* C14: every make_request call makes exactly one network round trip, with *)
(* no retry inside the call, and closes the connection it opened on every  *)
(* exit path: success, non-200 status, parse error, any other exception.   *)
(***************************************************************************)
Count(ops, op) == Cardinality({i \in 1..Len(ops) : ops[i] = op})

C14_OneRoundTripAlwaysClosed ==
    \A k \in 1..Len(calls) :
        /\ Count(calls[k].ops, "request") = 1
        /\ Count(calls[k].ops, "close") = 1
        /\ calls[k].ops[Len(calls[k].ops)] = "close"

\* C14 as amended: every make_request call sends at most one request and
\* never repeats a step; when HTTPSConnection accepts the host it sends
\* exactly one and closes the connection last on every exit path; when the
\* constructor rejects the host nothing is opened or sent and the call fails.
C14_AtMostOneRequestConnClosed ==
    \A k \in 1..Len(calls) :
        LET ops == calls[k].ops
        IN  /\ \A op \in {"HTTPSConnection", "request", "getresponse", "read", "close"} :
                  Count(ops, op) <= 1
            /\ (ops = << >>) = HTTPSConnection_raises(argv.FQDN)
            /\ (ops = << >> => calls[k].outcome.tag = "raised")
            /\ (ops # << >> => /\ ops[1] = "HTTPSConnection"
                               /\ Count(ops, "request") = 1
                               /\ ops[Len(ops)] = "close")
C14_Witness ==
    /\ Len(calls) = 2
    /\ calls[1].outcome.tag = "returned"
    /\ calls[1].ops = <<"HTTPSConnection", "request", "getresponse", "read", "close">>
    /\ calls[2].outcome = Raised("status")
    /\ calls[2].ops = <<"HTTPSConnection", "request", "getresponse", "close">>

(***************************************************************************)
(* C17: the result sink is called only after the loop has stopped and at   *)
(* most once, and no fetch is made once it was called; inside the sink the *)
(* upload is attempted at most once, never retried, and only after the     *)
(* records were serialized into the file it uploads.                       *)
(***************************************************************************)
SinkOrder ==
    /\ sink_result.called = sink_alerts.given
    /\ (sink_result.called => pc = "exited" /\ stop_reason # "none")
    /\ (~sink_result.called => files = << >> /\ s3_calls = << >>)
    /\ Len(files) <= 1
    /\ Len(s3_calls) <= Len(files)
    /\ \A i \in 1..Len(s3_calls) :
          /\ s3_calls[i].body = files[1].content
          /\ s3_calls[i].key.basename = files[1].name

C17_SinkAfterStopOnce ==
    /\ []SinkOrder
    /\ [][ sink_result.called =>
             /\ calls' = calls
             /\ sink_alerts' = sink_alerts
             /\ sink_result' = sink_result
             /\ files' = files
             /\ s3_calls' = s3_calls ]_vars
C17_Witness ==
    /\ pc = "exited"
    /\ sink_result.called
    /\ Len(calls) = 3
    /\ Len(files) = 1
    /\ Len(s3_calls) = 1
    /\ ~s3_calls[1].ok

(***************************************************************************)
(* C18: the START word has no effect on retrieval: the run started with    *)
(* the other START word, all else and the source being the same, asks for  *)
(* the same windows in the same order, the first beginning at offset 0,    *)
(* and builds the same accumulator.                                        *)
(***************************************************************************)
C18_StartArgumentIgnored ==
    /\ Len(twin_windows) = Len(calls)
    /\ \A k \in 1..Len(calls) : twin_windows[k] = WindowOf(k)
    /\ twin_all_alerts = all_alerts
    /\ (calls # << >> => WindowOf(1).from = 0)
C18_Witness ==
    /\ pc = "stopped"
    /\ start_arg = 5
    /\ Len(calls) = 3
    /\ WindowOf(1).from = 0
    /\ all_alerts = <<"a", "b", "a">>
    /\ twin_all_alerts = all_alerts

====
